---- MODULE Spec2Model ----
(***************************************************************************)
(* Model of the togrill-bluetooth packet codec                             *)
(* (src/src/togrill_bluetooth/parse_packets.py) and of the frame codec     *)
(* that wraps its payloads.                                                *)
(*                                                                         *)
(* The codec is a set of pure functions.  A behaviour of the model is one  *)
(* call: Init draws the caller's argument (a byte buffer or a packet), one *)
(* action applies a decode or an encode to it, and a second action applies *)
(* the inverse operation to the outcome (the round trips of the tests).    *)
(*                                                                         *)
(* Representation of Python values:                                        *)
(*   bytes            [cls |-> "bytes", data |-> <<b1, ..., bn>>]          *)
(*   a packet         [cls |-> "<class name>", <field> |-> ...]            *)
(*   a raised error   [cls |-> "<exception class>", msg |-> "<message>"]   *)
(*   float (degrees)  an integer number of hundredths of a degree          *)
(*   timedelta        an integer number of milliseconds                    *)
(*   float | None     [present |-> BOOLEAN, value |-> hundredths]          *)
(* data[i] of the source (0-based) is data[i+1] here.                      *)
(***************************************************************************)
EXTENDS Integers, Sequences, FiniteSets, TLC

VARIABLES pc, input, op, result, result2

vars == <<pc, input, op, result, result2>>

(***************************************************************************)
(* Bounds of the model.                                                    *)
(***************************************************************************)
\* longest payload handed to the codec
MaxLen == 8
\* longest ProbeTemperatures payload drawn from the full raw-value alphabet
MaxTempLen == 5
\* depth at which the interpreter stops a runaway recursion (RecursionError)
RecursionLimit == 4

(***************************************************************************)
(* Python primitives used by the codec.                                    *)
(***************************************************************************)
Bytes(seq) == [cls |-> "bytes", data |-> seq]

Raise(exc, text) == [cls |-> exc, msg |-> text]

DecodeError(text) == Raise("DecodeError", text)

IsBytes(v) == v.cls = "bytes"

ErrorClasses ==
    {"DecodeError", "IndexError", "OverflowError", "ValueError",
     "RecursionError", "NotImplementedError", "FrameError"}

IsError(v) == v.cls \in ErrorClasses

IsPacket(v) == ~IsBytes(v) /\ ~IsError(v) /\ v.cls # "None"

None == [cls |-> "None"]

\* data[i], 0-based
At(data, i) == data[i + 1]

\* data[lo:hi], 0-based, clamped to the buffer like a Python slice
Slice(data, lo, hi) ==
    LET h == IF hi > Len(data) THEN Len(data) ELSE hi
    IN  IF lo >= h THEN <<>> ELSE SubSeq(data, lo + 1, h)

\* data[lo:]
SliceFrom(data, lo) == Slice(data, lo, Len(data))

RECURSIVE FromBytesBig(_)
\* int.from_bytes(b, "big")
FromBytesBig(b) ==
    IF Len(b) = 0 THEN 0
    ELSE 256 * FromBytesBig(SubSeq(b, 1, Len(b) - 1)) + b[Len(b)]

\* n.to_bytes(2, "big"); the caller has checked 0 <= n < 65536
ToBytes2Big(n) == <<n \div 256, n % 256>>

\* n.to_bytes(2, "big") raises OverflowError outside 0..65535
FitsU16(n) == n >= 0 /\ n < 65536

\* bytes([...]) raises ValueError for an element outside range(0, 256)
FitsByte(n) == n >= 0 /\ n < 256

\* round(n / d) for d > 0: to nearest, ties to even
RoundHalfEven(n, d) ==
    LET q == n \div d
        r == n % d
    IN  IF 2 * r < d THEN q
        ELSE IF 2 * r > d THEN q + 1
        ELSE IF q % 2 = 0 THEN q ELSE q + 1

\* raw / 10 as a float of degrees, in hundredths of a degree
Div10(raw) == raw * 10

\* round(x * 10) for a float x of degrees given in hundredths
RoundTimes10(x) == RoundHalfEven(x, 10)

\* timedelta(seconds=s), in milliseconds
TimedeltaSeconds(s) == s * 1000

\* round(td.total_seconds())
RoundTotalSeconds(td) == RoundHalfEven(td, 1000)

RECURSIVE BitAnd(_, _)
BitAnd(a, b) ==
    IF a = 0 \/ b = 0 THEN 0
    ELSE (a % 2) * (b % 2) + 2 * BitAnd(a \div 2, b \div 2)

RECURSIVE ShiftRight(_, _)
ShiftRight(a, n) == IF n = 0 THEN a ELSE ShiftRight(a \div 2, n - 1)

RECURSIVE BitXor(_, _)
BitXor(a, b) ==
    IF a = 0 /\ b = 0 THEN 0
    ELSE (((a % 2) + (b % 2)) % 2) + 2 * BitXor(a \div 2, b \div 2)

(***************************************************************************)
(* parse_packets.py: the packet classes.                                   *)
(***************************************************************************)
\* the byte every notify class registers itself under (__init_subclass__)
PACKET_REGISTRY ==
    [t \in {160, 161, 165, 167} |->
        CASE t = 160 -> "PacketA0Notify"
          [] t = 161 -> "PacketA1Notify"
          [] t = 165 -> "PacketA5Notify"
          [] t = 167 -> "PacketA7Notify"]

\* Packet.decode
Packet_decode(data) == Raise("NotImplementedError", "")

\* PacketUnknown.decode
PacketUnknown_decode(data) ==
    IF Len(data) < 1 THEN DecodeError("Packet too short")
    ELSE [cls |-> "PacketUnknown", type |-> At(data, 0), data |-> SliceFrom(data, 1)]

\* PacketA0Notify.decode
PacketA0Notify_decode(data) ==
    IF Len(data) < 6 THEN DecodeError("Packet too short")
    ELSE IF At(data, 0) # 160 THEN DecodeError("Failed to parse packet")
    ELSE IF Len(data) > 6 /\ Len(data) < 8 THEN Raise("IndexError", "index out of range")
    ELSE LET bitfield == At(data, 5)
         IN  [cls |-> "PacketA0Notify",
              battery |-> At(data, 1),
              version_major |-> At(data, 2),
              version_minor |-> At(data, 3),
              function_type |-> BitAnd(bitfield, 15),
              probe_number |-> BitAnd(ShiftRight(bitfield, 4), 7),
              ambient |-> (ShiftRight(bitfield, 7) # 0),
              alarm_interval |-> IF Len(data) > 6 THEN At(data, 6) ELSE 5,
              alarm_sound |-> IF Len(data) > 6 THEN At(data, 7) = 1 ELSE TRUE]

\* PacketA1Notify.decode.convert
convert(value) ==
    IF value = 65535 THEN [present |-> FALSE, value |-> 0]
    ELSE IF value > 32768 THEN [present |-> TRUE, value |-> Div10(value - 32768)]
    ELSE [present |-> TRUE, value |-> Div10(value)]

\* the indices of range(1, len(data), 2), in order
RawIndices(data) == [k \in 1..(Len(data) \div 2) |-> 2 * k - 1]

\* PacketA1Notify.decode
PacketA1Notify_decode(data) ==
    IF Len(data) < 1 THEN DecodeError("Packet too short")
    ELSE IF At(data, 0) # 161 THEN DecodeError("Failed to parse packet")
    ELSE LET index == RawIndices(data)
             raw == [k \in DOMAIN index |->
                        FromBytesBig(Slice(data, index[k], index[k] + 2))]
         IN  [cls |-> "PacketA1Notify",
              temperatures |-> [k \in DOMAIN raw |-> convert(raw[k])]]

\* PacketA5Notify.decode; Message is an IntEnum, equal to its integer
PacketA5Notify_decode(data) ==
    IF Len(data) < 3 THEN DecodeError("Packet too short")
    ELSE IF At(data, 0) # 165 THEN DecodeError("Failed to parse packet")
    ELSE [cls |-> "PacketA5Notify", probe |-> At(data, 1), message |-> At(data, 2)]

\* PacketA7Notify.decode
PacketA7Notify_decode(data) ==
    IF Len(data) < 2 THEN DecodeError("Packet too short")
    ELSE [cls |-> "PacketA7Notify", data |-> At(data, 1)]

\* PacketA300Write.decode
PacketA300Write_decode(data) ==
    IF Len(data) < 7 THEN DecodeError("Packet too short")
    ELSE IF At(data, 2) # 0 THEN DecodeError("Invalid subtype")
    ELSE [cls |-> "PacketA300Write",
          probe |-> At(data, 1),
          minimum |-> Div10(FromBytesBig(Slice(data, 3, 5))),
          maximum |-> Div10(FromBytesBig(Slice(data, 5, 7)))]

\* PacketA300Write.encode with the two temperatures written in the wrong order
PacketA300Write_encode_Swapped(self) ==
    LET min_temp == RoundTimes10(self.minimum)
        max_temp == RoundTimes10(self.maximum)
    IN  IF ~FitsU16(min_temp) \/ ~FitsU16(max_temp)
        THEN Raise("OverflowError", "to_bytes")
        ELSE IF ~FitsByte(self.probe) THEN Raise("ValueError", "bytes must be in range(0, 256)")
        ELSE Bytes(<<163, self.probe, 0>> \o ToBytes2Big(max_temp) \o ToBytes2Big(min_temp))

\* PacketA300Write.encode
PacketA300Write_encode(self) ==
    LET min_temp == RoundTimes10(self.minimum)
        max_temp == RoundTimes10(self.maximum)
    IN  IF ~FitsU16(min_temp) \/ ~FitsU16(max_temp)
        THEN Raise("OverflowError", "to_bytes")
        ELSE IF ~FitsByte(self.probe) THEN Raise("ValueError", "bytes must be in range(0, 256)")
        ELSE Bytes(<<163, self.probe, 0>> \o ToBytes2Big(min_temp) \o ToBytes2Big(max_temp))

\* PacketA301Write.decode
PacketA301Write_decode(data) ==
    IF Len(data) < 7 THEN DecodeError("Packet too short")
    ELSE IF At(data, 2) # 1 THEN DecodeError("Invalid subtype")
    ELSE [cls |-> "PacketA301Write",
          probe |-> At(data, 1),
          target |-> Div10(FromBytesBig(Slice(data, 3, 5)))]

\* PacketA301Write.encode
PacketA301Write_encode(self) ==
    LET target_temp == RoundTimes10(self.target)
    IN  IF ~FitsU16(target_temp) THEN Raise("OverflowError", "to_bytes")
        ELSE IF ~FitsByte(self.probe) THEN Raise("ValueError", "bytes must be in range(0, 256)")
        ELSE Bytes(<<163, self.probe, 1>> \o ToBytes2Big(target_temp) \o <<0, 0>>)

\* PacketA303Write.decode without its subtype check
PacketA303Write_decode_AnySubtype(data) ==
    IF Len(data) < 7 THEN DecodeError("Packet too short")
    ELSE [cls |-> "PacketA303Write", probe |-> At(data, 1), grill_type |-> At(data, 4)]

\* PacketA303Write.decode
PacketA303Write_decode(data) ==
    IF Len(data) < 7 THEN DecodeError("Packet too short")
    ELSE IF At(data, 2) # 3 THEN DecodeError("Invalid subtype")
    ELSE [cls |-> "PacketA303Write", probe |-> At(data, 1), grill_type |-> At(data, 4)]

\* PacketA303Write.encode
PacketA303Write_encode(self) ==
    IF ~FitsByte(self.probe) \/ ~FitsByte(self.grill_type)
    THEN Raise("ValueError", "bytes must be in range(0, 256)")
    ELSE Bytes(<<163, self.probe, 3, 0, self.grill_type, 0, 0>>)

\* PacketA7Write.decode
PacketA7Write_decode(data) ==
    IF Len(data) < 5 THEN DecodeError("Packet too short")
    ELSE [cls |-> "PacketA7Write",
          probe |-> At(data, 1),
          time |-> TimedeltaSeconds(FromBytesBig(Slice(data, 3, 5))),
          unknown |-> At(data, 2)]

\* PacketA7Write.encode
PacketA7Write_encode(self) ==
    LET seconds == RoundTotalSeconds(self.time)
    IN  IF ~FitsU16(seconds) THEN Raise("OverflowError", "to_bytes")
        ELSE IF ~FitsByte(self.probe) \/ ~FitsByte(self.unknown)
        THEN Raise("ValueError", "bytes must be in range(0, 256)")
        ELSE Bytes(<<167, self.probe, self.unknown>> \o ToBytes2Big(seconds))

RECURSIVE PacketNotify_decode(_, _, _)
\* cls.decode(data): the classmethod lookup on the class the call was made on.
\* PacketNotify and Packet define their own decode, every notify class
\* overrides it.
ClassDecode(cls, data, depth) ==
    CASE cls = "PacketNotify" -> PacketNotify_decode(cls, data, depth)
      [] cls = "PacketA0Notify" -> PacketA0Notify_decode(data)
      [] cls = "PacketA1Notify" -> PacketA1Notify_decode(data)
      [] cls = "PacketA5Notify" -> PacketA5Notify_decode(data)
      [] cls = "PacketA7Notify" -> PacketA7Notify_decode(data)
      [] OTHER -> Packet_decode(data)

\* PacketNotify.decode, called on class cls at call depth `depth`.  The
\* interpreter raises RecursionError when the call stack is exhausted.
PacketNotify_decode(cls, data, depth) ==
    IF depth >= RecursionLimit THEN Raise("RecursionError", "maximum recursion depth exceeded")
    ELSE IF Len(data) < 1 THEN DecodeError("Failed to parse packet")
    ELSE IF At(data, 0) \in DOMAIN PACKET_REGISTRY
         THEN ClassDecode(cls, data, depth + 1)
         ELSE [cls |-> "PacketUnknown", type |-> At(data, 0), data |-> SliceFrom(data, 1)]

(***************************************************************************)
(* The frame codec (WriteCharacteristic.encode, NotifyCharacteristic.decode)*)
(* of togrill_bluetooth/parse.py: magic, big-endian u16 length, payload,   *)
(* XOR checksum.                                                           *)
(***************************************************************************)
\* the two magic bytes 0x55 0xAA
FrameMagic == <<85, 170>>

RECURSIVE FrameChecksum(_)
\* XOR of every byte of b
FrameChecksum(b) ==
    IF Len(b) = 0 THEN 0
    ELSE BitXor(FrameChecksum(SubSeq(b, 1, Len(b) - 1)), b[Len(b)])

\* WriteCharacteristic.encode with the checksum taken over length and payload
\* only, the magic left out
WriteCharacteristic_encode_NoMagic(payload) ==
    IF ~FitsU16(Len(payload)) THEN Raise("FrameError", "Malformed")
    ELSE LET body == ToBytes2Big(Len(payload)) \o payload
         IN  Bytes(Append(FrameMagic \o body, FrameChecksum(body)))

\* WriteCharacteristic.encode
WriteCharacteristic_encode(payload) ==
    IF ~FitsU16(Len(payload)) THEN Raise("FrameError", "Malformed")
    ELSE LET head == FrameMagic \o ToBytes2Big(Len(payload)) \o payload
         IN  Bytes(Append(head, FrameChecksum(head)))

\* NotifyCharacteristic.decode
NotifyCharacteristic_decode(frame) ==
    IF Len(frame) < 5 THEN Raise("FrameError", "Malformed")
    ELSE IF Slice(frame, 0, 2) # FrameMagic THEN Raise("FrameError", "Malformed")
    ELSE IF FromBytesBig(Slice(frame, 2, 4)) # Len(frame) - 5
         THEN Raise("FrameError", "Malformed")
    ELSE IF At(frame, Len(frame) - 1) # FrameChecksum(Slice(frame, 0, Len(frame) - 1))
         THEN Raise("FrameError", "Malformed")
    ELSE Bytes(Slice(frame, 4, Len(frame) - 1))

(***************************************************************************)
(* Method dispatch on a packet's class: packet.encode() and                *)
(* type(packet).decode(raw), as the round-trip test calls them.            *)
(***************************************************************************)
WriteClasses ==
    {"PacketA300Write", "PacketA301Write", "PacketA303Write", "PacketA7Write"}

Encode(packet) ==
    CASE packet.cls = "PacketA300Write" -> PacketA300Write_encode(packet)
      [] packet.cls = "PacketA301Write" -> PacketA301Write_encode(packet)
      [] packet.cls = "PacketA303Write" -> PacketA303Write_encode(packet)
      [] packet.cls = "PacketA7Write" -> PacketA7Write_encode(packet)
      [] OTHER -> Raise("NotImplementedError", "")

Decode(cls, data) ==
    CASE cls = "PacketA300Write" -> PacketA300Write_decode(data)
      [] cls = "PacketA301Write" -> PacketA301Write_decode(data)
      [] cls = "PacketA303Write" -> PacketA303Write_decode(data)
      [] cls = "PacketA7Write" -> PacketA7Write_decode(data)
      [] cls = "PacketUnknown" -> PacketUnknown_decode(data)
      [] OTHER -> ClassDecode(cls, data, 0)

(***************************************************************************)
(* The arguments a caller hands to the codec.                              *)
(***************************************************************************)
RECURSIVE SeqsAt(_, _)
\* the byte strings of length n whose byte at position i is drawn from D[i]
SeqsAt(D, n) ==
    IF n = 0 THEN {<<>>}
    ELSE {Append(s, b) : s \in SeqsAt(D, n - 1), b \in D[n]}

SeqsUpTo(D, n) == UNION {SeqsAt(D, k) : k \in 0..n}

\* notify payloads: every registered type byte, 0xA3 and an unregistered one,
\* followed by bytes 0x01 / 0xE5
NotifyAlphabet ==
    [i \in 1..MaxLen |->
        IF i = 1 THEN {0, 160, 161, 163, 165, 167} ELSE {1, 229}]

\* ProbeTemperatures payloads over the bytes of the raw values 0x0000, 0x0001,
\* 0x01B5, 0x8000, 0x8001, 0xFFFF and their neighbours
TempAlphabet ==
    [i \in 1..MaxTempLen |->
        IF i = 1 THEN {161} ELSE {0, 1, 128, 181, 255}]

\* write payloads: type, probe, subtype, then value bytes
WriteAlphabet ==
    [i \in 1..MaxLen |->
        CASE i = 1 -> {0, 163, 167}
          [] i = 2 -> {1}
          [] i = 3 -> {0, 1, 2, 3}
          [] OTHER -> {0, 16}]

Payloads ==
    SeqsUpTo(NotifyAlphabet, MaxLen) \cup SeqsUpTo(TempAlphabet, MaxTempLen)
        \cup SeqsUpTo(WriteAlphabet, MaxLen)

\* field values of the packets handed to encode: inside the wire range, at its
\* ends, just outside it, and between two representable values
ProbeValues == {0, 1, 255, 256}

\* hundredths of a degree: -0.1, 0, 0.05, 0.16, 1.6, 3276.8, 6553.5, 6553.6
TemperatureValues == {-10, 0, 5, 16, 160, 327680, 655350, 655360}

\* milliseconds: -1 s, 0, 1.5 s, 16 s, 256 s, 65535 s, 65536 s
TimeValues == {-1000, 0, 1500, 16000, 256000, 65535000, 65536000}

Packets ==
    {[cls |-> "PacketA300Write", probe |-> p, minimum |-> a, maximum |-> b] :
        p \in ProbeValues, a \in TemperatureValues, b \in TemperatureValues}
    \cup {[cls |-> "PacketA301Write", probe |-> p, target |-> a] :
        p \in ProbeValues, a \in TemperatureValues}
    \cup {[cls |-> "PacketA303Write", probe |-> p, grill_type |-> g] :
        p \in ProbeValues, g \in {0, 5, 255, 256}}
    \cup {[cls |-> "PacketA7Write", probe |-> p, time |-> t, unknown |-> u] :
        p \in ProbeValues, t \in TimeValues, u \in {0, 1, 255}}

(***************************************************************************)
(* The state machine: one call, then the inverse call on its outcome.      *)
(***************************************************************************)
Init ==
    /\ pc = "idle"
    /\ input \in {Bytes(d) : d \in Payloads} \cup Packets
    /\ op = "none"
    /\ result = None
    /\ result2 = None

\* a decode called on the caller's byte buffer
CallDecode(name, outcome) ==
    /\ pc = "idle"
    /\ IsBytes(input)
    /\ pc' = "called"
    /\ op' = name
    /\ result' = outcome
    /\ UNCHANGED <<input, result2>>

NotifyDecode ==
    CallDecode("PacketNotify.decode", PacketNotify_decode("PacketNotify", input.data, 0))

DecodeA0Notify == CallDecode("PacketA0Notify.decode", PacketA0Notify_decode(input.data))

DecodeA1Notify == CallDecode("PacketA1Notify.decode", PacketA1Notify_decode(input.data))

DecodeA5Notify == CallDecode("PacketA5Notify.decode", PacketA5Notify_decode(input.data))

DecodeA7Notify == CallDecode("PacketA7Notify.decode", PacketA7Notify_decode(input.data))

DecodeUnknown == CallDecode("PacketUnknown.decode", PacketUnknown_decode(input.data))

DecodeA300Write == CallDecode("PacketA300Write.decode", PacketA300Write_decode(input.data))

DecodeA301Write == CallDecode("PacketA301Write.decode", PacketA301Write_decode(input.data))

DecodeA303Write == CallDecode("PacketA303Write.decode", PacketA303Write_decode(input.data))

DecodeA7Write == CallDecode("PacketA7Write.decode", PacketA7Write_decode(input.data))

FrameDecode ==
    CallDecode("NotifyCharacteristic.decode", NotifyCharacteristic_decode(input.data))

FrameEncode ==
    CallDecode("WriteCharacteristic.encode", WriteCharacteristic_encode(input.data))

\* packet.encode() on the caller's packet
EncodePacket ==
    /\ pc = "idle"
    /\ IsPacket(input)
    /\ pc' = "called"
    /\ op' = "encode"
    /\ result' = Encode(input)
    /\ UNCHANGED <<input, result2>>

\* type(packet).decode(packet.encode())
DecodeEncoded ==
    /\ pc = "called"
    /\ op = "encode"
    /\ IsBytes(result)
    /\ pc' = "again"
    /\ result2' = Decode(input.cls, result.data)
    /\ UNCHANGED <<input, op, result>>

\* cls.decode(data).encode() for a write class
EncodeDecoded ==
    /\ pc = "called"
    /\ result.cls \in WriteClasses
    /\ op # "encode"
    /\ pc' = "again"
    /\ result2' = Encode(result)
    /\ UNCHANGED <<input, op, result>>

\* NotifyCharacteristic.decode(WriteCharacteristic.encode(payload))
DecodeFramed ==
    /\ pc = "called"
    /\ op = "WriteCharacteristic.encode"
    /\ IsBytes(result)
    /\ pc' = "again"
    /\ result2' = NotifyCharacteristic_decode(result.data)
    /\ UNCHANGED <<input, op, result>>

Next ==
    \/ NotifyDecode
    \/ DecodeA0Notify
    \/ DecodeA1Notify
    \/ DecodeA5Notify
    \/ DecodeA7Notify
    \/ DecodeUnknown
    \/ DecodeA300Write
    \/ DecodeA301Write
    \/ DecodeA303Write
    \/ DecodeA7Write
    \/ FrameDecode
    \/ FrameEncode
    \/ EncodePacket
    \/ DecodeEncoded
    \/ EncodeDecoded
    \/ DecodeFramed

Spec == Init /\ [][Next]_vars

(***************************************************************************)
(* Properties.                                                             *)
(***************************************************************************)
\* the call `name` has been made on the caller's byte buffer
Called(name) == pc # "idle" /\ op = name

RegisteredTypes == {160, 161, 165, 167}

\* the class registered for a notify type byte, as the specification lists them
VariantOf(t) ==
    CASE t = 160 -> "PacketA0Notify"
      [] t = 161 -> "PacketA1Notify"
      [] t = 165 -> "PacketA5Notify"
      [] t = 167 -> "PacketA7Notify"

\* the outcome of calling the class's own decode directly
DirectDecode(cls, data) ==
    CASE cls = "PacketA0Notify" -> PacketA0Notify_decode(data)
      [] cls = "PacketA1Notify" -> PacketA1Notify_decode(data)
      [] cls = "PacketA5Notify" -> PacketA5Notify_decode(data)
      [] cls = "PacketA7Notify" -> PacketA7Notify_decode(data)

\* C1: the registry decode of a non-empty payload whose first byte is a
\* registered notify type terminates with exactly the outcome of that type's
\* own decode on the same payload.
C1_RegistryDelegates ==
    (Called("PacketNotify.decode") /\ Len(input.data) >= 1
        /\ At(input.data, 0) \in RegisteredTypes)
    => /\ result # None
       /\ result = DirectDecode(VariantOf(At(input.data, 0)), input.data)

\* C2: the registry decode of a non-empty payload whose first byte is not
\* registered returns Unknown{type = payload[0], data = payload[1:]}; the
\* empty payload fails, and no other payload fails in the registry itself
\* (a failure on a non-empty payload is the registered variant's own).
C2_UnknownFallback ==
    Called("PacketNotify.decode")
    => /\ (Len(input.data) >= 1 /\ At(input.data, 0) \notin RegisteredTypes)
            => result = [cls |-> "PacketUnknown",
                         type |-> input.data[1],
                         data |-> SubSeq(input.data, 2, Len(input.data))]
       /\ Len(input.data) = 0 => IsError(result)
       /\ (IsError(result) /\ Len(input.data) >= 1)
            => /\ At(input.data, 0) \in RegisteredTypes
               /\ result = DirectDecode(VariantOf(At(input.data, 0)), input.data)

\* the fields of a write packet lie in their wire ranges: bytes in 0..255,
\* temperatures in whole tenths of a degree 0..6553.5, durations in whole
\* seconds 0..65535
WholeTenths(x) == x % 10 = 0 /\ x >= 0 /\ x <= 655350

InWireRange(p) ==
    /\ p.probe \in 0..255
    /\ p.cls = "PacketA300Write" => WholeTenths(p.minimum) /\ WholeTenths(p.maximum)
    /\ p.cls = "PacketA301Write" => WholeTenths(p.target)
    /\ p.cls = "PacketA303Write" => p.grill_type \in 0..255
    /\ p.cls = "PacketA7Write" =>
            /\ p.unknown \in 0..255
            /\ p.time % 1000 = 0 /\ p.time >= 0 /\ p.time <= 65535000

\* C3: for every write packet p with fields in their wire ranges, encode(p)
\* succeeds and decode(encode(p)) = p.
C3_WriteRoundTrip ==
    (op = "encode" /\ InWireRange(input))
    => /\ pc # "idle" => IsBytes(result)
       /\ pc = "again" => result2 = input

C3_Witness ==
    /\ pc = "again"
    /\ op = "encode"
    /\ input = [cls |-> "PacketA300Write", probe |-> 255,
                minimum |-> 327680, maximum |-> 655350]
    /\ result = Bytes(<<163, 255, 0, 128, 0, 255, 255>>)
    /\ result2 = input

\* the reading claimed for a raw 16-bit value, in hundredths of a degree
ClaimedReading(v) ==
    IF v = 65535 THEN [present |-> FALSE, value |-> 0]
    ELSE IF v = 32768 THEN [present |-> TRUE, value |-> 0]
    ELSE IF v > 32768 THEN [present |-> TRUE, value |-> (v - 32768) * 10]
    ELSE [present |-> TRUE, value |-> v * 10]

\* C4: ProbeTemperatures decode maps the k-th complete raw value v to the
\* k-th reading: 0xFFFF absent, 0x8000 to 0.0, v > 0x8000 to (v - 32768)/10,
\* any other v to v/10.
C4_ReadingValues ==
    (Called("PacketA1Notify.decode") /\ Len(input.data) >= 1 /\ At(input.data, 0) = 161)
    => /\ result.cls = "PacketA1Notify"
       /\ \A k \in 1..((Len(input.data) - 1) \div 2) :
            /\ k <= Len(result.temperatures)
            /\ result.temperatures[k]
                 = ClaimedReading(256 * input.data[2 * k] + input.data[2 * k + 1])

\* C5: DeviceStatus decode accepts every payload of at least 6 bytes starting
\* with 0xA0: defaults alarm_interval = 5, alarm_sound = true unless both
\* trailing bytes are present, payload[6] and payload[7] = 1 when they are;
\* a shorter payload fails with "too short"; no failure is anything but a
\* packet decode error.
C5_DeviceStatusLengths ==
    Called("PacketA0Notify.decode")
    => /\ Len(input.data) < 6 => result = DecodeError("Packet too short")
       /\ (Len(input.data) >= 6 /\ At(input.data, 0) = 160)
            => /\ result.cls = "PacketA0Notify"
               /\ Len(input.data) < 8
                    => result.alarm_interval = 5 /\ result.alarm_sound = TRUE
               /\ Len(input.data) >= 8
                    => /\ result.alarm_interval = input.data[7]
                       /\ result.alarm_sound = (input.data[8] = 1)
       /\ IsError(result) => result.cls = "DecodeError"

\* C6: WriteCharacteristic.encode(payload) is 0x55 0xAA, the big-endian 16-bit
\* payload length, the payload and one checksum byte that is the XOR of all
\* preceding bytes, and NotifyCharacteristic.decode of that frame is the
\* payload.
C6_FrameRoundTrip ==
    Called("WriteCharacteristic.encode")
    => /\ IsBytes(result)
       /\ Len(result.data) = Len(input.data) + 5
       /\ SubSeq(result.data, 1, 4)
            = <<85, 170, Len(input.data) \div 256, Len(input.data) % 256>>
       /\ SubSeq(result.data, 5, Len(result.data) - 1) = input.data
       /\ FrameChecksum(result.data) = 0
       /\ (input.data = <<161, 0>>) => result.data = <<85, 170, 0, 2, 161, 0, 92>>
       /\ pc = "again" => result2 = input

C6_Witness ==
    /\ pc = "again"
    /\ op = "WriteCharacteristic.encode"
    /\ input = Bytes(<<161, 0>>)
    /\ result = Bytes(<<85, 170, 0, 2, 161, 0, 92>>)
    /\ result2 = input

WriteDecodes ==
    {"PacketA300Write.decode", "PacketA301Write.decode", "PacketA303Write.decode",
     "PacketA7Write.decode"}

\* C7: for every payload b a write variant's decode accepts,
\* encode(decode(b)) = b.
C7_DecodeEncode ==
    (pc = "again" /\ op \in WriteDecodes) => result2 = input

\* the type constant and the minimum payload length of each typed variant
TypeConstant ==
    [n \in {"PacketA0Notify.decode", "PacketA1Notify.decode", "PacketA5Notify.decode",
            "PacketA7Notify.decode"} \cup WriteDecodes |->
        CASE n = "PacketA0Notify.decode" -> 160
          [] n = "PacketA1Notify.decode" -> 161
          [] n = "PacketA5Notify.decode" -> 165
          [] n = "PacketA7Notify.decode" -> 167
          [] n = "PacketA7Write.decode" -> 167
          [] OTHER -> 163]

MinimumLength ==
    [n \in DOMAIN TypeConstant |->
        CASE n = "PacketA0Notify.decode" -> 6
          [] n = "PacketA1Notify.decode" -> 1
          [] n = "PacketA5Notify.decode" -> 3
          [] n = "PacketA7Notify.decode" -> 2
          [] n = "PacketA7Write.decode" -> 5
          [] OTHER -> 7]

\* C8: every typed variant's decode rejects, with the type-mismatch decode
\* error, a payload long enough for the variant whose first byte is not the
\* variant's type constant.
C8_TypeMismatch ==
    (pc # "idle" /\ op \in DOMAIN TypeConstant
        /\ Len(input.data) >= MinimumLength[op]
        /\ At(input.data, 0) # TypeConstant[op])
    => result = DecodeError("Failed to parse packet")

\* the subtype and the packet class of the three decodes of the 0xA3 family
Subtype ==
    [n \in {"PacketA300Write.decode", "PacketA301Write.decode",
            "PacketA303Write.decode"} |->
        CASE n = "PacketA300Write.decode" -> 0
          [] n = "PacketA301Write.decode" -> 1
          [] n = "PacketA303Write.decode" -> 3]

SubtypeClass ==
    [n \in DOMAIN Subtype |->
        CASE n = "PacketA300Write.decode" -> "PacketA300Write"
          [] n = "PacketA301Write.decode" -> "PacketA301Write"
          [] n = "PacketA303Write.decode" -> "PacketA303Write"]

\* C9: on a payload of at least 7 bytes with type byte 0xA3 a variant's decode
\* accepts exactly when the byte after the probe byte is its subtype (0x00,
\* 0x01, 0x03), so exactly one of the three accepts; on any other subtype each
\* fails with the invalid-subtype decode error, never with Unknown or another
\* variant's packet.
C9_SubtypeDispatch ==
    (pc # "idle" /\ op \in DOMAIN Subtype
        /\ Len(input.data) >= 7 /\ At(input.data, 0) = 163)
    => /\ At(input.data, 2) = Subtype[op] => result.cls = SubtypeClass[op]
       /\ At(input.data, 2) # Subtype[op] => result = DecodeError("Invalid subtype")
       /\ Cardinality({c \in {"PacketA300Write", "PacketA301Write", "PacketA303Write"} :
                          IsPacket(Decode(c, input.data))})
            = (IF At(input.data, 2) \in {0, 1, 3} THEN 1 ELSE 0)

C9_Witness ==
    /\ pc # "idle"
    /\ op = "PacketA303Write.decode"
    /\ input = Bytes(<<163, 1, 3, 0, 16, 0, 0>>)
    /\ result = [cls |-> "PacketA303Write", probe |-> 1, grill_type |-> 16]

\* C10: ProbeTemperatures decode returns one reading per complete 2-byte value
\* after the type byte (n readings for a payload of 1 + 2n bytes) and rejects,
\* with a packet decode error, a payload whose remainder has odd length.
C10_ReadingCount ==
    (Called("PacketA1Notify.decode") /\ Len(input.data) >= 1 /\ At(input.data, 0) = 161)
    => IF (Len(input.data) - 1) % 2 = 0
       THEN /\ result.cls = "PacketA1Notify"
            /\ Len(result.temperatures) = (Len(input.data) - 1) \div 2
       ELSE result.cls = "DecodeError"

====
